---- MODULE Spec2Model ----
(***************************************************************************)
(* Model of the single-file expense tracker (src/app.py): the users and    *)
(* expenses tables of the SQLite store, the credential helpers, the token  *)
(* guard current_user and the six request handlers.  A request is handled  *)
(* in the steps the code takes between two statements sent to the store,   *)
(* so that requests of different clients interleave as they do on the      *)
(* framework's worker threads.                                             *)
(***************************************************************************)
EXTENDS Integers, Sequences, FiniteSets, Bags, TLC

\* ---------------------------------------------------------------- bounds
\* Requests in flight at once; the largest user id and expense id given out;
\* tokens handed out per user id; the last of the first seconds sampled.
MaxInFlight == 2
MaxUsers == 2
MaxExpenses == 2
MaxTokens == 1
MaxTime == 1

\* ------------------------------------------------------ program constants
ACCESS_TOKEN_EXPIRE_MINUTES == 60
SECRET_KEY == "change-this-in-production"
\* create_engine never issues PRAGMA foreign_keys=ON, and SQLite enforces
\* no FOREIGN KEY clause without it.
ForeignKeysEnforced == FALSE

\* ------------------------------------------------------------ input sets
Emails == {"a@x.com", "b@x.com"}
Passwords == {"pw1", "pw2"}
Salts == {"s1"}
Categories == {"food", "fuel"}
Amounts == {-1, 1}
Comments == {"None"}
ExpenseIds == 1..(MaxExpenses + 1)
\* The instants at which the clock is sampled: the first seconds of a run,
\* and the second at which the token issued in the last of them expires and
\* those issued earlier have expired.
Times == (0..MaxTime) \cup {ACCESS_TOKEN_EXPIRE_MINUTES * 60 + MaxTime}

VARIABLES
    users,      \* rows of table users: [id, email, hashed_password]
    expenses,   \* rows of table expenses
    now,        \* the clock, in whole seconds
    inflight,   \* the bag of requests between their first and their second step
    issued,     \* the tokens login has handed out, each with the email it was for
    resp        \* the response the last step sent, with the request it answers;
                \* NoResponse if the step sent none

vars == <<users, expenses, now, inflight, issued, resp>>

\* A request starts when a worker is free to take it.
Accepting == BagCardinality(inflight) < MaxInFlight
Enter(r) == inflight' = inflight (+) SetToBag({r})
Leave(r) == inflight' = inflight (-) SetToBag({r})
InFlight == BagToSet(inflight)

\* ------------------------------------------------------------- responses
Response(request, status, body) == [request |-> request, status |-> status, body |-> body]
NoResponse == Response([op |-> "none"], 0, [detail |-> ""])
\* raise HTTPException(status_code, detail)
HTTPException(request, status, detail) == Response(request, status, [detail |-> detail])
\* An exception no handler catches: the framework answers 500.
ServerError(request) == Response(request, 500, [detail |-> "Internal Server Error"])

\* --------------------------------------------------------------- storage
SetMax(S) == CHOOSE m \in S : \A n \in S : n <= m
\* INTEGER PRIMARY KEY without AUTOINCREMENT: the new rowid is one more than
\* the largest rowid in use, so the id of a deleted last row is given again.
NextId(table) == IF table = {} THEN 1 ELSE SetMax({r.id : r \in table}) + 1

\* db.query(User).filter(User.email == email).first()
UserByEmail(email) == {u \in users : u.email = email}
\* db.query(User).filter(User.id == uid).first()
UserById(uid) == {u \in users : u.id = uid}
\* db.query(Expense).filter(Expense.owner_id == user.id)
OwnedBy(uid) == {e \in expenses : e.owner_id = uid}

\* ----------------------------------------------------------- credentials
\* bcrypt: the digest is a function of the salt and the password.
Digest(salt, p) == <<salt, p>>
hash_password(p, salt) == [salt |-> salt, digest |-> Digest(salt, p)]
\* Faulty variant: any password verifies.
verify_password_Any(plain, hashed) == TRUE
verify_password(plain, hashed) == Digest(hashed.salt, plain) = hashed.digest

\* HS256: the signature binds the payload to the key.
Sign(payload, key) == [key |-> key, payload |-> payload]
jwt_encode(payload, key) == [parts |-> 3, payload |-> payload, sig |-> Sign(payload, key)]
create_access_token(data) ==
    jwt_encode([sub |-> data.sub, exp |-> now + ACCESS_TOKEN_EXPIRE_MINUTES * 60], SECRET_KEY)

\* int(s) of the decimal strings str(id) produces; anything else raises.
IsIntStr(s) == \E n \in 0..(MaxUsers + 2) : ToString(n) = s
IntOfStr(s) == CHOOSE n \in 0..(MaxUsers + 2) : ToString(n) = s

\* Faulty variant: the expiry is not looked at.
jwt_decode_ok_NoExpiry(token, key) ==
    /\ token.parts = 3
    /\ token.sig = Sign(token.payload, key)

\* jwt.decode: three segments, a signature made with the key, exp not passed
\* (python-jose raises ExpiredSignatureError when exp < now).
jwt_decode_ok(token, key) ==
    /\ token.parts = 3
    /\ token.sig = Sign(token.payload, key)
    /\ ("exp" \in DOMAIN token.payload => ~(token.payload.exp < now))

\* current_user, lines 55-59: the id in the token, or failure.
TokenUid(token) ==
    IF /\ jwt_decode_ok(token, SECRET_KEY)
       /\ "sub" \in DOMAIN token.payload
       /\ IsIntStr(token.payload.sub)
    THEN {IntOfStr(token.payload.sub)} ELSE {}
\* current_user, line 60: the row with that id.
current_user(token) == UNION {UserById(uid) : uid \in TokenUid(token)}

\* The tokens a client can present: those login handed out, and tokens no
\* login made: a truncated one, one signed with another key, issued ones with
\* the subject rewritten under the old signature, and tokens carrying the
\* key's signature over a payload without a numeric subject.
FarExp == 2 * ACCESS_TOKEN_EXPIRE_MINUTES * 60 + MaxTime
IssuedTokens == {p.token : p \in issued}
BadTokens ==
    {[parts |-> 1, payload |-> [sub |-> "1", exp |-> FarExp],
      sig |-> Sign([sub |-> "1", exp |-> FarExp], SECRET_KEY)]}
    \cup {jwt_encode([sub |-> "1", exp |-> FarExp], "attacker-key")}
    \cup ({[t EXCEPT !.payload.sub = ToString(n)] : t \in IssuedTokens, n \in 1..MaxUsers}
            \ IssuedTokens)
    \cup {jwt_encode([exp |-> FarExp], SECRET_KEY), jwt_encode([sub |-> "x", exp |-> FarExp], SECRET_KEY)}
PresentedTokens == IssuedTokens \cup BadTokens

Init ==
    /\ users = {}
    /\ expenses = {}
    /\ now = 0
    /\ inflight = EmptyBag
    /\ issued = {}
    /\ resp = NoResponse

\* ---------------------------------------------------------------- signup
\* signup, lines 70-71: the existence check.
SignupCheck(email) ==
    /\ Accepting
    /\ IF UserByEmail(email) # {}
       THEN /\ resp' = HTTPException([op |-> "signup", email |-> email], 400,
                                      "Email already registered")
            /\ UNCHANGED inflight
       ELSE /\ NextId(users) <= MaxUsers
            /\ Enter([op |-> "signup", email |-> email])
            /\ resp' = NoResponse
    /\ UNCHANGED <<users, expenses, now, issued>>

\* Faulty variant: the email column without its UNIQUE index.
SignupCommit_NoUnique(r, password, salt) ==
    /\ r \in InFlight /\ r.op = "signup"
    /\ LET user == [id |-> NextId(users), email |-> r.email,
                     hashed_password |-> hash_password(password, salt)]
       IN  /\ user.id <= MaxUsers
           /\ users' = users \cup {user}
           /\ resp' = Response(r, 200, [id |-> user.id, email |-> user.email])
    /\ Leave(r)
    /\ UNCHANGED <<expenses, now, issued>>

\* signup, lines 72-76: hash, add, commit (the UNIQUE index on email makes the
\* INSERT fail with IntegrityError, which nothing catches), refresh, return.
\* The password is not read before line 72, so it is drawn here.
SignupCommit(r, password, salt) ==
    /\ r \in InFlight /\ r.op = "signup"
    /\ IF UserByEmail(r.email) # {}
       THEN /\ resp' = ServerError(r)
            /\ UNCHANGED users
       ELSE LET user == [id |-> NextId(users), email |-> r.email,
                         hashed_password |-> hash_password(password, salt)]
            IN  /\ user.id <= MaxUsers
                /\ users' = users \cup {user}
                /\ resp' = Response(r, 200, [id |-> user.id, email |-> user.email])
    /\ Leave(r)
    /\ UNCHANGED <<expenses, now, issued>>

\* ----------------------------------------------------------------- login
\* login, lines 79-83: one query, then the token.
login(username, password) ==
    /\ Accepting
    /\ LET found == UserByEmail(username)
           form == [op |-> "login", username |-> username, password |-> password]
       IN  IF found = {} \/ \A u \in found : ~verify_password(password, u.hashed_password)
           THEN /\ resp' = HTTPException(form, 400, "Incorrect email or password")
                /\ UNCHANGED issued
           ELSE \E user \in found :
                   LET token == create_access_token([sub |-> ToString(user.id)])
                       grant == [token |-> token, username |-> username]
                   IN  /\ Cardinality({g \in issued \cup {grant} :
                                          g.token.payload.sub = token.payload.sub}) <= MaxTokens
                       /\ resp' = Response(form, 200,
                                      [access_token |-> token, token_type |-> "bearer"])
                       /\ issued' = issued \cup {grant}
    /\ UNCHANGED <<users, expenses, now, inflight>>

\* ------------------------------------------------------- the token guard
\* Depends(current_user), resolved before the body of each of the four
\* /expenses handlers.  Nothing reads the route between the guard and the
\* body, so a request past the guard is recorded by its user alone and the
\* body that runs is drawn when it runs.
Authenticate(token) ==
    /\ Accepting
    /\ IF TokenUid(token) = {}
       THEN /\ resp' = HTTPException([op |-> "expenses", token |-> token], 401, "Invalid token")
            /\ UNCHANGED inflight
       ELSE IF current_user(token) = {}
       THEN /\ resp' = HTTPException([op |-> "expenses", token |-> token], 401, "User not found")
            /\ UNCHANGED inflight
       ELSE /\ \E user \in current_user(token) : Enter([op |-> "expenses", uid |-> user.id])
            /\ resp' = NoResponse
    /\ UNCHANGED <<users, expenses, now, issued>>

\* -------------------------------------------------------------- expenses
\* add_expense, lines 87-91.  An INSERT whose owner_id names no user fails
\* only where foreign keys are enforced.
add_expense(r, category, amount, comments) ==
    /\ r \in InFlight /\ r.op = "expenses"
    /\ NextId(expenses) <= MaxExpenses
    /\ IF ForeignKeysEnforced /\ UserById(r.uid) = {}
       THEN /\ resp' = ServerError([op |-> "create", uid |-> r.uid])
            /\ UNCHANGED expenses
       ELSE LET exp == [id |-> NextId(expenses), category |-> category, amount |-> amount,
                        comments |-> comments, created_at |-> now, updated_at |-> now,
                        owner_id |-> r.uid]
            IN  /\ expenses' = expenses \cup {exp}
                /\ resp' = Response([op |-> "create", uid |-> r.uid], 200, exp)
    /\ Leave(r)
    /\ UNCHANGED <<users, now, issued>>

\* ORDER BY created_at DESC: every order of the rows in which created_at
\* never increases; the order of rows with equal created_at is the store's.
IsOrdering(s, rows) ==
    /\ {s[i] : i \in DOMAIN s} = rows
    /\ \A i, j \in DOMAIN s : i < j => s[i] # s[j]
\* Faulty variant: ascending instead of descending.
OrderByCreatedAtAsc(rows) ==
    {s \in [1..Cardinality(rows) -> rows] :
        /\ IsOrdering(s, rows)
        /\ \A i, j \in DOMAIN s : i < j => s[i].created_at <= s[j].created_at}
OrderByCreatedAtDesc(rows) ==
    {s \in [1..Cardinality(rows) -> rows] :
        /\ IsOrdering(s, rows)
        /\ \A i, j \in DOMAIN s : i < j => s[i].created_at >= s[j].created_at}
\* Faulty variant: the query without its owner filter.
ListResults_AllOwners(uid) == OrderByCreatedAtDesc(expenses)
ListResults(uid) == OrderByCreatedAtDesc(OwnedBy(uid))

\* list_expenses, line 94.
list_expenses(r) ==
    /\ r \in InFlight /\ r.op = "expenses"
    /\ \E items \in ListResults(r.uid) :
          resp' = Response([op |-> "list", uid |-> r.uid], 200, [items |-> items])
    /\ Leave(r)
    /\ UNCHANGED <<users, expenses, now, issued>>

\* Faulty variant: the lookup without its owner filter.
delete_expense_AnyOwner(r, exp_id) ==
    /\ r \in InFlight /\ r.op = "expenses"
    /\ LET exp == {e \in expenses : e.id = exp_id}
           request == [op |-> "delete", uid |-> r.uid, exp_id |-> exp_id]
       IN  IF exp = {}
           THEN /\ resp' = HTTPException(request, 404, "Expense not found")
                /\ UNCHANGED expenses
           ELSE /\ expenses' = expenses \ exp
                /\ resp' = Response(request, 200, [ok |-> TRUE])
    /\ Leave(r)
    /\ UNCHANGED <<users, now, issued>>

\* delete_expense, lines 97-102.
delete_expense(r, exp_id) ==
    /\ r \in InFlight /\ r.op = "expenses"
    /\ LET exp == {e \in expenses : e.id = exp_id /\ e.owner_id = r.uid}
           request == [op |-> "delete", uid |-> r.uid, exp_id |-> exp_id]
       IN  IF exp = {}
           THEN /\ resp' = HTTPException(request, 404, "Expense not found")
                /\ UNCHANGED expenses
           ELSE /\ expenses' = expenses \ exp
                /\ resp' = Response(request, 200, [ok |-> TRUE])
    /\ Leave(r)
    /\ UNCHANGED <<users, now, issued>>

RECURSIVE SumAmounts(_)
\* func.sum(Expense.amount) over a group of rows.
SumAmounts(rows) ==
    IF rows = {} THEN 0
    ELSE LET e == CHOOSE x \in rows : TRUE IN e.amount + SumAmounts(rows \ {e})

\* Faulty variant: the groups taken over every owner's rows.
SummaryRows_AllOwners(uid) ==
    LET cats == {e.category : e \in OwnedBy(uid)}
    IN  {[labels |-> l,
          data |-> [i \in DOMAIN l |-> SumAmounts({e \in expenses : e.category = l[i]})]] :
            l \in {s \in [1..Cardinality(cats) -> cats] : IsOrdering(s, cats)}}

\* GROUP BY category: one row per category present, in the store's order.
SummaryRows(uid) ==
    LET cats == {e.category : e \in OwnedBy(uid)}
    IN  {[labels |-> l,
          data |-> [i \in DOMAIN l |-> SumAmounts({e \in OwnedBy(uid) : e.category = l[i]})]] :
            l \in {s \in [1..Cardinality(cats) -> cats] : IsOrdering(s, cats)}}

\* summary, lines 105-106.
summary(r) ==
    /\ r \in InFlight /\ r.op = "expenses"
    /\ \E out \in SummaryRows(r.uid) :
          resp' = Response([op |-> "summary", uid |-> r.uid], 200, out)
    /\ Leave(r)
    /\ UNCHANGED <<users, expenses, now, issued>>

\* ------------------------------------------------------ outside the API
\* Deletion of a user row with its expenses (cascade="all,delete", line 22);
\* no handler does it.
DeleteUser(u) ==
    /\ u \in users
    /\ users' = users \ {u}
    /\ expenses' = {e \in expenses : e.owner_id # u.id}
    /\ resp' = NoResponse
    /\ UNCHANGED <<now, inflight, issued>>

Tick ==
    /\ \E t \in Times : t > now /\ now' = t
    /\ resp' = NoResponse
    /\ UNCHANGED <<users, expenses, inflight, issued>>

\* -------------------------------------------------------- specifications
Signups(passwords) ==
    \/ \E e \in Emails : SignupCheck(e)
    \/ \E r \in InFlight, p \in passwords, s \in Salts : SignupCommit(r, p, s)
Logins ==
    \/ \E e \in Emails, p \in Passwords : login(e, p)
    \/ \E t \in PresentedTokens : Authenticate(t)
Creates(categories, amounts) ==
    \E r \in InFlight, cat \in categories, a \in amounts, cm \in Comments : add_expense(r, cat, a, cm)
Lists == \E r \in InFlight : list_expenses(r)
Deletes == \E r \in InFlight, id \in ExpenseIds : delete_expense(r, id)
Summaries == \E r \in InFlight : summary(r)
UserDeletions == \E u \in users : DeleteUser(u)

\* The whole system.
Next ==
    \/ Signups(Passwords)
    \/ Logins
    \/ Creates(Categories, Amounts)
    \/ Lists
    \/ Deletes
    \/ Summaries
    \/ UserDeletions
    \/ Tick
Spec == Init /\ [][Next]_vars

\* The product of all of it is beyond exhaustive search at these bounds; the
\* claims are checked in four parts of it, each a subset of the behaviours
\* of Spec.
OneCategory == {"food"}
OneAmount == {1}

\* The handlers within one second, no user row deleted.
NextLedger ==
    \/ Signups(Passwords)
    \/ Logins
    \/ Creates(Categories, Amounts)
    \/ Lists
    \/ Deletes
    \/ Summaries
SpecLedger == Init /\ [][NextLedger]_vars

\* Accounts and tokens, with the clock running and user rows deleted from
\* outside; no expense is created.
NextAuth ==
    \/ Signups(Passwords)
    \/ Logins
    \/ Lists
    \/ Deletes
    \/ Summaries
    \/ UserDeletions
    \/ Tick
SpecAuth == Init /\ [][NextAuth]_vars

\* Expenses of one category and amount created and deleted within one second
\* while user rows are deleted from outside.
NextChurn ==
    \/ Signups(Passwords)
    \/ Logins
    \/ Creates(OneCategory, OneAmount)
    \/ Lists
    \/ Deletes
    \/ UserDeletions
SpecChurn == Init /\ [][NextChurn]_vars

\* Expenses of one category and amount created and listed with the clock
\* running.
NextClock ==
    \/ Signups(Passwords)
    \/ Logins
    \/ Creates(OneCategory, OneAmount)
    \/ Lists
    \/ Tick
SpecClock == Init /\ [][NextClock]_vars

\* ================================================================ claims
Items == resp.body.items
Answers(op) == resp.request.op = op

\* C1: what List returns to a caller holds only that caller's expenses: every
\* row of the result has the caller's id as owner_id, and a row gets as
\* owner_id the id of the user whose request created it.
C1_ListOwnerIsolation ==
    [][/\ \A r \in InFlight : list_expenses(r) =>
              \A i \in DOMAIN resp'.body.items : resp'.body.items[i].owner_id = r.uid
       /\ \A r \in InFlight, cat \in Categories, a \in Amounts, cm \in Comments :
              add_expense(r, cat, a, cm) =>
                  \A e \in expenses' \ expenses : e.owner_id = r.uid]_vars
\* A caller got a non-empty list while another user had expenses.
C1_Witness ==
    /\ Answers("list")
    /\ Items # <<>>
    /\ \E e \in expenses : e.owner_id # resp.request.uid

\* C2: Delete of an id that no expense has, or that an expense of another
\* user has, answers 404 "Expense not found" in both cases and changes no row.
C2_DeleteNotFound ==
    [][\A r \in InFlight, id \in ExpenseIds :
          (delete_expense(r, id) /\ \A e \in expenses : e.id = id => e.owner_id # r.uid)
          => /\ resp'.status = 404
             /\ resp'.body = [detail |-> "Expense not found"]
             /\ expenses' = expenses
             /\ users' = users]_vars
\* A delete of another user's expense was answered 404 and the expense is there.
C2_Witness ==
    /\ Answers("delete")
    /\ resp.status = 404
    /\ \E e \in expenses : e.id = resp.request.exp_id /\ e.owner_id # resp.request.uid

\* C3 (as claimed): a signup answered while its email belongs to a user is
\* answered 400 "Email already registered" and changes no user row.
C3_DuplicateEmailAlways400 ==
    [][(resp'.request.op = "signup" /\ UserByEmail(resp'.request.email) # {})
          => /\ resp'.status = 400
             /\ resp'.body = [detail |-> "Email already registered"]
             /\ users' = users]_vars

\* C4 (as claimed): a token login handed out for user A never authenticates
\* as another user: the user current_user resolves it to has the email the
\* token was handed out for.
C4_TokenNeverOtherUser ==
    \A g \in issued : \A u \in current_user(g.token) : u.email = g.username

\* C5: the guard answers 401 and changes nothing, and no handler body runs,
\* for a token that is malformed, wrongly signed, past its expiry or whose
\* subject is no user; it admits a token of login before its expiry whose
\* subject is a user; and login sets the expiry 60 minutes after issuance.
Malformed(t) == t.parts # 3
WronglySigned(t) == t.sig # [key |-> SECRET_KEY, payload |-> t.payload]
PastExpiry(t) == t.payload.exp < now
SubjectIsUser(t) == "sub" \in DOMAIN t.payload /\ \E u \in users : ToString(u.id) = t.payload.sub
C5_AuthGuard ==
    [][/\ (resp'.request.op = "expenses" \/ BagCardinality(inflight') > BagCardinality(inflight)) =>
          \A t \in PresentedTokens : Authenticate(t) =>
              /\ (Malformed(t) \/ WronglySigned(t) \/ PastExpiry(t) \/ ~SubjectIsUser(t))
                    => /\ resp'.status = 401
                       /\ UNCHANGED <<users, expenses, inflight>>
              /\ (t \in IssuedTokens /\ now < t.payload.exp /\ SubjectIsUser(t))
                    => /\ resp' = NoResponse
                       /\ \E u \in users :
                             /\ ToString(u.id) = t.payload.sub
                             /\ inflight' = inflight (+) SetToBag({[op |-> "expenses", uid |-> u.id]})
       /\ (resp'.request.op = "login" /\ resp'.status = 200) =>
              resp'.body.access_token.payload.exp = now + 60 * 60]_vars
\* A token login handed out was refused after its expiry.
C5_Witness ==
    /\ Answers("expenses")
    /\ resp.status = 401
    /\ resp.request.token \in IssuedTokens
    /\ resp.request.token.payload.exp < now

\* C6: login with an email of no user, or with a password that is not the one
\* the user's stored hash was made from, answers 400 with the same body and
\* changes nothing; otherwise it answers 200 with a token whose subject is the
\* id of the user with that email.
Matches(u, e, p) == u.email = e /\ u.hashed_password = hash_password(p, u.hashed_password.salt)
C6_Login ==
    [][resp'.request.op = "login" =>
          LET e == resp'.request.username
              p == resp'.request.password
          IN  IF \A u \in users : ~Matches(u, e, p)
              THEN /\ resp'.status = 400
                   /\ resp'.body = [detail |-> "Incorrect email or password"]
                   /\ UNCHANGED <<users, expenses, issued>>
              ELSE /\ resp'.status = 200
                   /\ \E u \in users :
                         /\ Matches(u, e, p)
                         /\ resp'.body.access_token.payload.sub = ToString(u.id)
                         /\ [token |-> resp'.body.access_token, username |-> e] \in issued']_vars
\* A login with a user's email and another password was answered 400.
C6_Witness ==
    /\ Answers("login")
    /\ resp.status = 400
    /\ \E u \in users : u.email = resp.request.username

\* C7 (as claimed): in what List returns, of any two expenses the one created
\* later comes first.  Of two rows in the table together, the one created
\* later has the larger id.
C7_LaterCreatedFirst ==
    Answers("list") => \A i, j \in DOMAIN Items : i < j => Items[i].id > Items[j].id
\* C7 (amended): List returns all of the caller's expenses, each once, and
\* created_at never increases along the result.
C7_CreatedAtDescending ==
    Answers("list") =>
        /\ {Items[i] : i \in DOMAIN Items} = OwnedBy(resp.request.uid)
        /\ Len(Items) = Cardinality(OwnedBy(resp.request.uid))
        /\ \A i, j \in DOMAIN Items : i < j => Items[i].created_at >= Items[j].created_at
\* A list of two expenses created in different seconds was returned.
C7_Witness ==
    /\ Answers("list")
    /\ Len(Items) = 2
    /\ Items[1].created_at # Items[2].created_at

RECURSIVE SumListed(_, _)
SumListed(items, category) ==
    IF items = <<>> THEN 0
    ELSE (IF Head(items).category = category THEN Head(items).amount ELSE 0)
         + SumListed(Tail(items), category)
\* C8: Summary returns labels and data of equal length, one label for each
\* category in which the caller has an expense and no other, and data[i] is
\* the sum of the amounts of the expenses List returns the caller in labels[i].
C8_SummaryMatchesList ==
    Answers("summary") =>
        LET labels == resp.body.labels
            data == resp.body.data
        IN  /\ Len(labels) = Len(data)
            /\ \A i, j \in DOMAIN labels : i # j => labels[i] # labels[j]
            /\ \A items \in ListResults(resp.request.uid) :
                  /\ {labels[i] : i \in DOMAIN labels} = {items[k].category : k \in DOMAIN items}
                  /\ \A i \in DOMAIN labels : data[i] = SumListed(items, labels[i])
\* A summary with a label was returned to one user while another had expenses.
C8_Witness ==
    /\ Answers("summary")
    /\ Len(resp.body.labels) >= 1
    /\ \E e \in expenses : e.owner_id # resp.request.uid

\* C9: no two user rows hold the same email.
C9_EmailUnique == \A u1, u2 \in users : u1.email = u2.email => u1 = u2
\* The later of two signups that both passed the check was refused by the index.
C9_Witness ==
    /\ Answers("signup")
    /\ resp.status = 500
    /\ UserByEmail(resp.request.email) # {}

\* C10 (as claimed): the owner_id of every expense is the id of a user.
C10_OwnerExists == \A e \in expenses : UserById(e.owner_id) # {}
====
